---- MODULE Spec2Model ----
(***************************************************************************)
(* Model of app.py: a Streamlit page that runs a named-entity-recognition  *)
(* pipeline over a news text, splices highlight markup around the detected *)
(* spans and lists the entities grouped by category.                       *)
(*                                                                         *)
(* A text is a sequence of one-character strings.  The highlighted output  *)
(* is a sequence whose elements are either characters or markup pieces     *)
(* (opening span tag, badge, closing tag), each a string longer than one   *)
(* character, so that a replacement has a length different from the span   *)
(* it replaces.  Scores are integers in thousandths (950 is 0.950).        *)
(***************************************************************************)
EXTENDS Integers, Sequences, FiniteSets, TLC

VARIABLES
    cached,          \* st.cache_resource holds the loaded pipeline
    model_loaded,    \* this run: load_model() returned
    theme,           \* sidebar radio
    text_input,      \* text area content
    analyze_button,  \* this run was triggered by the button
    ner_outcome,     \* what the pipeline answers for text_input
    legend,          \* this run: the legend of the seven categories
    page             \* this run: what the result column did and rendered:
                     \*   ner_called    the pipeline was invoked
                     \*   entities      the list bound to `entities`
                     \*   hl_call       the call of highlight_entities, if any
                     \*   panel         the highlighted-text panel (<<>> if none)
                     \*   header_shown  the "Daftar Entitas Terdeteksi" heading
                     \*   groups        the rendered entity groups
                     \*   messages      the st.error / st.warning / st.info boxes
                     \*   raised        an exception escaped the script

vars == <<cached, model_loaded, theme, text_input, analyze_button, ner_outcome,
          legend, page>>

-----------------------------------------------------------------------------
(* Bounds of the model *)

MaxTextLen == 3
MaxEntities == 2

Alphabet == {"a", " "}
Whitespace == {" "}
Themes == {"Light", "Dark"}
\* categories the pipeline answers with: a known code and an unknown one
NerCategories == {"PER", "XYZ"}
Scores == {880, 950}

Min(S) == CHOOSE m \in S : \A k \in S : m <= k
Max(S) == CHOOSE m \in S : \A k \in S : m >= k

Texts == UNION {[1..n -> Alphabet] : n \in 0..MaxTextLen}

-----------------------------------------------------------------------------
(* Python primitives used by the script *)

\* dict.get(key, default)
DictGet(d, key, default) == IF key \in DOMAIN d THEN d[key] ELSE default

\* s[lo:hi] for lo, hi >= 0 (indices past the end are clamped)
PySlice(s, lo, hi) ==
    LET h == IF hi > Len(s) THEN Len(s) ELSE hi
        l == IF lo > Len(s) THEN Len(s) ELSE lo
    IN  IF l >= h THEN <<>> ELSE SubSeq(s, l + 1, h)

\* str.strip()
strip(s) ==
    LET keep == {i \in 1..Len(s) : s[i] \notin Whitespace}
    IN  IF keep = {} THEN <<>> ELSE SubSeq(s, Min(keep), Max(keep))

\* sorted(s, key=..., reverse=True), keys[i] being the key of s[i]: stable, so
\* elements with equal keys keep their order
SortedDesc(s, keys) ==
    LET before(i) == Cardinality({j \in 1..Len(s) :
                        \/ keys[j] > keys[i]
                        \/ keys[j] = keys[i] /\ j < i})
    IN  [p \in 1..Len(s) |-> s[CHOOSE i \in 1..Len(s) : before(i) = p - 1]]

\* the category codes in ascending str order ('X' > 'P' > ... > 'C')
CodeOrder == <<"CRIMETYPE", "DAT", "EVIDENCE", "LAW", "LOC", "NOR", "PER", "XYZ">>
CodeRank(c) == CHOOSE i \in 1..Len(CodeOrder) : CodeOrder[i] = c

\* f"{score:.2f}" of a score given in thousandths
Fmt2(score) ==
    LET h == (score + 5) \div 10
    IN  ToString(h \div 100) \o "." \o ToString((h \div 10) % 10) \o ToString(h % 10)

-----------------------------------------------------------------------------
(* get_entity_color *)

light_colors ==
    [LOC |-> "#D5F5E3", NOR |-> "#D6EAF8", LAW |-> "#FDEDEC", DAT |-> "#FEF9E7",
     PER |-> "#E8F8F5", CRIMETYPE |-> "#FADBD8", EVIDENCE |-> "#EBDEF0"]

dark_colors ==
    [LOC |-> "#2ECC71", NOR |-> "#3498DB", LAW |-> "#E74C3C", DAT |-> "#F1C40F",
     PER |-> "#1ABC9C", CRIMETYPE |-> "#E67E22", EVIDENCE |-> "#9B59B6"]

\* the theme test of line 34 left out: the light table for both themes
get_entity_color_light_only(entity_type, th) ==
    DictGet(light_colors, entity_type, "#F2F3F4")

get_entity_color(entity_type, th) ==
    IF th = "Dark"
    THEN DictGet(dark_colors, entity_type, "#7F8C8D")
    ELSE DictGet(light_colors, entity_type, "#F2F3F4")

-----------------------------------------------------------------------------
(* highlight_entities *)

highlight_text_color(th) == IF th = "Light" THEN "black" ELSE "white"

OpenTag(entity, th) ==
    "<span style=\"background-color: " \o get_entity_color(entity.entity_group, th)
    \o "; color: " \o highlight_text_color(th)
    \o "; padding: 0.3em 0.5em; margin: 0 0.2em; line-height: 1; border-radius: 0.35em;\" "
    \o "title=\"" \o entity.entity_group \o " (Score: " \o Fmt2(entity.score) \o ")\">"

Badge(entity) ==
    " <strong style=\"font-size: 0.8em; font-weight: bold;\">"
    \o entity.entity_group \o "</strong>"

CloseTag == "</span>"

replacement(entity, th) ==
    <<OpenTag(entity, th)>> \o entity.word \o <<Badge(entity), CloseTag>>

\* line 45 without reverse=True: leftmost span first
sorted_entities_ascending(ents) ==
    SortedDesc(ents, [i \in 1..Len(ents) |-> 0 - ents[i].start])

\* line 45 left out: the entities as supplied
sorted_entities_as_supplied(ents) == ents

\* line 45: sorted(entities, key=lambda x: x['start'], reverse=True)
sorted_entities(ents) == SortedDesc(ents, [i \in 1..Len(ents) |-> ents[i].start])

\* line 62 with [start:] for the suffix: the span stays after its replacement
SpliceStepKeepSpan(highlighted_text, entity, th) ==
    PySlice(highlighted_text, 0, entity.start)
        \o replacement(entity, th)
        \o PySlice(highlighted_text, entity.start, Len(highlighted_text))

\* line 62: highlighted_text[:start] + replacement + highlighted_text[end:]
SpliceStep(highlighted_text, entity, th) ==
    PySlice(highlighted_text, 0, entity.start)
        \o replacement(entity, th)
        \o PySlice(highlighted_text, entity.end, Len(highlighted_text))

\* lines 48-62: the loop over sorted_entities
RECURSIVE SpliceFrom(_, _, _, _)
SpliceFrom(highlighted_text, sorted, i, th) ==
    IF i > Len(sorted) THEN highlighted_text
    ELSE SpliceFrom(SpliceStep(highlighted_text, sorted[i], th), sorted, i + 1, th)

highlight_entities(text, ents, th) ==
    IF ents = <<>> THEN text
    ELSE SpliceFrom(text, sorted_entities(ents), 1, th)

-----------------------------------------------------------------------------
(* Grouped list: lines 158-175 *)

entity_types ==
    [LOC |-> "Lokasi", NOR |-> "Organisasi", LAW |-> "Hukum", DAT |-> "Tanggal/Waktu",
     PER |-> "Person", CRIMETYPE |-> "Jenis Kejahatan", EVIDENCE |-> "Barang Bukti"]

\* the keys of entity_groups in insertion order (first occurrence in the list)
RECURSIVE GroupKeys(_, _)
GroupKeys(ents, i) ==
    IF i > Len(ents) THEN <<>>
    ELSE LET rest == GroupKeys(ents, i + 1)
             k == ents[i].entity_group
         IN  <<k>> \o SelectSeq(rest, LAMBDA x : x # k)

\* entity_groups.items(): (key, list) pairs, each list in list order
entity_groups(ents) ==
    LET keys == GroupKeys(ents, 1)
    IN  [n \in 1..Len(keys) |->
            [entity_type |-> keys[n],
             group_entities |-> SelectSeq(ents, LAMBDA e : e.entity_group = keys[n])]]

\* sorted(entity_groups.items()): ascending, and the keys are distinct, so the
\* key alone orders the pairs
sorted_groups(ents) ==
    LET items == entity_groups(ents)
    IN  SortedDesc(items, [n \in 1..Len(items) |-> 0 - CodeRank(items[n].entity_type)])

\* line 173 without the sort: the group in list order
sorted_group_entities_unsorted(group_entities) == group_entities

\* sorted(group_entities, key=lambda x: x['score'], reverse=True)
sorted_group_entities(group_entities) ==
    SortedDesc(group_entities, [i \in 1..Len(group_entities) |-> group_entities[i].score])

\* one rendered group: its header (lines 166-172) and its entities (173-175)
RenderGroup(item, th) ==
    [entity_type  |-> item.entity_type,
     header_color |-> get_entity_color(item.entity_type, th),
     header_text_color |-> IF th = "Light" THEN "black" ELSE "white",
     label        |-> DictGet(entity_types, item.entity_type, item.entity_type),
     items        |-> sorted_group_entities(item.group_entities)]

render_groups(ents, th) ==
    LET sg == sorted_groups(ents)
    IN  [n \in 1..Len(sg) |-> RenderGroup(sg[n], th)]

\* the groups on the page when the last entity line raised: all but that line
AllButLastLine(gs) ==
    [n \in 1..Len(gs) |->
        IF n < Len(gs) THEN gs[n]
        ELSE [gs[n] EXCEPT !.items = SubSeq(@, 1, Len(@) - 1)]]

-----------------------------------------------------------------------------
(* The messages of the page *)

MsgLoadError   == [kind |-> "error",   text |-> "Error memuat model: "]
MsgAnalysisErr == [kind |-> "error",   text |-> "Terjadi error saat analisis: "]
MsgNoEntities  == [kind |-> "info",
                   text |-> "Tidak ada entitas yang terdeteksi dalam teks yang diberikan."]
MsgEmptyInput  == [kind |-> "warning",
                   text |-> "Harap masukkan teks terlebih dahulu untuk dianalisis."]
MsgPlaceholder == [kind |-> "info",
                   text |-> "Hasil analisis akan ditampilkan di sini setelah Anda menekan tombol 'Analisis Entitas'."]
MsgModelFailed == [kind |-> "error",
                   text |-> "Model gagal dimuat. Mohon refresh halaman untuk mencoba lagi."]

-----------------------------------------------------------------------------
(* The pipeline, as the script sees it: ner(text_input), line 150 *)

Spans(text) == {p \in (0..Len(text)) \X (0..Len(text)) : p[1] < p[2]}

\* the entities the pipeline reports on a text: an in-bounds span, a category,
\* a score and the covered substring as the word
EntitiesOf(text) ==
    {[entity_group |-> g, score |-> sc, word |-> PySlice(text, p[1], p[2]),
      start |-> p[1], end |-> p[2]] :
        g \in NerCategories, sc \in Scores, p \in Spans(text)}

\* the lists it returns: up to n entities, left to right, not overlapping
RECURSIVE NerLists(_, _)
NerLists(text, n) ==
    IF n = 0 THEN {<<>>}
    ELSE LET shorter == NerLists(text, n - 1)
             longest == {l \in shorter : Len(l) = n - 1}
             fits == {q \in longest \X EntitiesOf(text) :
                        q[1] = <<>> \/ q[1][Len(q[1])].end <= q[2].start}
         IN  shorter \cup {Append(q[1], q[2]) : q \in fits}

\* a call of the pipeline returns a list or raises
NerOutcomes(text) ==
    IF strip(text) = <<>>
    THEN {[raised |-> FALSE, ents |-> <<>>]}
    ELSE {[raised |-> TRUE, ents |-> <<>>]}
            \cup {[raised |-> FALSE, ents |-> l] : l \in NerLists(text, MaxEntities)}

-----------------------------------------------------------------------------
(* One run of the script *)

\* where an exception is raised inside the try block after the pipeline call
Faults == {"none", "highlight", "grouping", "render_last"}

NoCall == [called |-> FALSE, text |-> <<>>, entities |-> <<>>, theme |-> "Light",
           result |-> <<>>]

\* line 147 testing text_input instead of text_input.strip()
AnalysisGuard_NoStrip(loaded, button, text) == loaded /\ button /\ text # <<>>

\* line 147 without model_loaded
AnalysisGuard_NoLoaded(loaded, button, text) == button /\ strip(text) # <<>>

\* line 147
AnalysisGuard(loaded, button, text) == loaded /\ button /\ strip(text) # <<>>

\* line 182
WarningGuard(button, text) == button /\ strip(text) = <<>>

\* line 152 as `if entities is not None`
HasEntities_NotNone(ents) == TRUE

\* line 152: truthiness of the list
HasEntities(ents) == ents # <<>>

\* line 179 catching the pipeline's error only
Caught_PipelineOnly(fault) == fault = "ner"

\* line 179: except Exception catches whatever the try block raised
Caught(fault) == TRUE

\* line 45 builds a new list with sorted(): the caller's list is as it was
entities_after_highlight(ents) == ents

\* the call at line 153: the arguments as the call leaves them, and the result
CallHighlight(text, ents, th) ==
    [called |-> TRUE, text |-> text, entities |-> entities_after_highlight(ents),
     theme |-> th, result |-> highlight_entities(text, ents, th)]

Blank == [ner_called |-> FALSE, entities |-> <<>>, hl_call |-> NoCall, panel |-> <<>>,
          header_shown |-> FALSE, groups |-> <<>>, messages |-> {}, raised |-> FALSE]

\* lines 150-177: the body of the try block, up to the point where it raises
TryBody(text, th, outcome, fault) ==
    IF outcome.raised
    THEN [Blank EXCEPT !.ner_called = TRUE, !.raised = TRUE]
    ELSE IF ~HasEntities(outcome.ents)
    THEN [Blank EXCEPT !.ner_called = TRUE, !.messages = {MsgNoEntities}]
    ELSE IF fault = "highlight"
    THEN [Blank EXCEPT !.ner_called = TRUE, !.entities = outcome.ents, !.raised = TRUE]
    ELSE LET call == CallHighlight(text, outcome.ents, th)
             shown == [Blank EXCEPT !.ner_called = TRUE, !.entities = call.entities,
                                    !.hl_call = call, !.panel = call.result,
                                    !.header_shown = TRUE]
             gs == render_groups(call.entities, th)
         IN  IF fault = "grouping"
             THEN [shown EXCEPT !.raised = TRUE]
             ELSE IF fault = "render_last"
             THEN [shown EXCEPT !.groups = AllButLastLine(gs), !.raised = TRUE]
             ELSE [shown EXCEPT !.groups = gs]

\* lines 147-185: the result column
ResultColumn(loaded, button, text, th, outcome, fault) ==
    IF AnalysisGuard(loaded, button, text)
    THEN LET b == TryBody(text, th, outcome, fault)
         IN  IF ~b.raised THEN [b EXCEPT !.raised = FALSE]
             ELSE IF Caught(IF outcome.raised THEN "ner" ELSE fault)
             THEN [b EXCEPT !.messages = @ \cup {MsgAnalysisErr}, !.raised = FALSE]
             ELSE b
    ELSE IF WarningGuard(button, text)
    THEN [Blank EXCEPT !.messages = {MsgEmptyInput}]
    ELSE [Blank EXCEPT !.messages = {MsgPlaceholder}]

\* lines 132-139: the legend, one entry per known category
LegendOrder == <<"LOC", "NOR", "LAW", "DAT", "PER", "CRIMETYPE", "EVIDENCE">>
Legend(th) ==
    [n \in 1..Len(LegendOrder) |->
        [etype |-> LegendOrder[n], desc |-> entity_types[LegendOrder[n]],
         color |-> get_entity_color(LegendOrder[n], th)]]

\* lines 105-110 and 187-188 around the result column; an exception that leaves
\* the result column ends the script before line 187
Page(loaded, button, text, th, outcome, fault) ==
    LET col == ResultColumn(loaded, button, text, th, outcome, fault)
    IN  [col EXCEPT !.messages =
            (IF loaded THEN {} ELSE {MsgLoadError}) \cup @
            \cup (IF ~loaded /\ ~col.raised THEN {MsgModelFailed} ELSE {})]

\* a run of the whole script with the given widget values
Run(button, th, loaded, fault) ==
    /\ analyze_button' = button
    /\ theme' = th
    /\ model_loaded' = loaded
    /\ cached' = (cached \/ loaded)
    /\ legend' = Legend(th)
    /\ page' = Page(loaded, button, text_input, th, ner_outcome, fault)
    /\ UNCHANGED <<text_input, ner_outcome>>

\* load_model() under st.cache_resource: a cached pipeline is returned as is,
\* otherwise the load is attempted and may raise
LoadResults == IF cached THEN {TRUE} ELSE BOOLEAN

\* a fault after the pipeline call needs the code after it to run
FaultsOf(loaded, button) ==
    IF AnalysisGuard(loaded, button, text_input) /\ HasEntities(ner_outcome.ents)
    THEN Faults ELSE {"none"}

-----------------------------------------------------------------------------
(* The page: the user opens it on a text and then interacts *)

Init ==
    /\ text_input \in Texts
    /\ ner_outcome \in NerOutcomes(text_input)
    /\ theme = "Light"
    /\ analyze_button = FALSE
    /\ model_loaded \in BOOLEAN
    /\ cached = model_loaded
    /\ legend = Legend("Light")
    /\ page = Page(model_loaded, FALSE, text_input, "Light", ner_outcome, "none")

\* the user presses "Analisis Entitas"
PressAnalyze ==
    \E loaded \in LoadResults : \E fault \in FaultsOf(loaded, TRUE) :
        Run(TRUE, theme, loaded, fault)

\* the user picks the other theme in the sidebar
ChangeTheme ==
    \E th \in Themes \ {theme} : \E loaded \in LoadResults :
        Run(FALSE, th, loaded, "none")

\* the user reloads the page
Reload ==
    \E loaded \in LoadResults : Run(FALSE, theme, loaded, "none")

Next == PressAnalyze \/ ChangeTheme \/ Reload

Spec == Init /\ [][Next]_vars

-----------------------------------------------------------------------------
(* highlight_entities on its own: a caller holds a text, a theme and a list  *)
(* of entities in any order, overlapping or not, and calls the function.    *)

\* a text of n distinct characters: the function never looks at a character,
\* only at offsets, so distinct characters show every displacement
DistinctText(n) == [i \in 1..n |-> ToString(i)]
HTexts == {DistinctText(n) : n \in 0..MaxTextLen}
HCategories == {"PER", "XYZ"}
HScores == {950}
\* a word the pipeline reports when it is not the covered substring
OtherWord == <<"w">>

HEntitiesOf(text) ==
    UNION {{[entity_group |-> g, score |-> sc, word |-> w,
             start |-> p[1], end |-> p[2]] :
                g \in HCategories, sc \in HScores,
                w \in {PySlice(text, p[1], p[2]), OtherWord}} : p \in Spans(text)}

HLists(text) == UNION {[1..n -> HEntitiesOf(text)] : n \in 0..MaxEntities}

InitH ==
    /\ text_input \in HTexts
    /\ theme \in Themes
    /\ \E l \in HLists(text_input) :
          /\ ner_outcome = [raised |-> FALSE, ents |-> l]
          /\ page = [Blank EXCEPT !.entities = l]
    /\ analyze_button = FALSE
    /\ model_loaded = TRUE
    /\ cached = TRUE
    /\ legend = Legend(theme)

\* the caller calls highlight_entities(text_input, entities, theme) once
HighlightCall ==
    /\ ~page.hl_call.called
    /\ LET call == CallHighlight(text_input, page.entities, theme)
       IN  page' = [page EXCEPT !.hl_call = call, !.entities = call.entities,
                                !.panel = call.result]
    /\ UNCHANGED <<cached, model_loaded, theme, text_input, analyze_button,
                   ner_outcome, legend>>

NextH == HighlightCall

SpecH == InitH /\ [][NextH]_vars

-----------------------------------------------------------------------------
(* Properties of highlight_entities, checked under SpecH *)

InBounds(text, e) == 0 <= e.start /\ e.start < e.end /\ e.end <= Len(text)

WellFormed(text, e) == InBounds(text, e) /\ e.word = PySlice(text, e.start, e.end)

NonOverlapping(ents) ==
    \A i, j \in 1..Len(ents) :
        i < j => ents[i].end <= ents[j].start \/ ents[j].end <= ents[i].start

AllInBounds(text, ents) == \A i \in 1..Len(ents) : InBounds(text, ents[i])

AllWellFormed(text, ents) == \A i \in 1..Len(ents) : WellFormed(text, ents[i])

\* the markup pieces the call inserts for its entities
MarkupOf(ents, th) ==
    {CloseTag} \cup {OpenTag(ents[i], th) : i \in 1..Len(ents)}
               \cup {Badge(ents[i]) : i \in 1..Len(ents)}

StripMarkup(out, ents, th) == SelectSeq(out, LAMBDA x : x \notin MarkupOf(ents, th))

\* the output has, somewhere, the entity's substring wrapped in its markup
WrapsSubstring(out, text, e, th) ==
    LET frag == <<OpenTag(e, th)>> \o PySlice(text, e.start, e.end)
                    \o <<Badge(e), CloseTag>>
    IN  \E k \in 1..Len(out) :
            k + Len(frag) - 1 <= Len(out) /\ SubSeq(out, k, k + Len(frag) - 1) = frag

\* C2: for well-formed, in-bounds, pairwise non-overlapping entities and either
\* theme, the output of highlight_entities with the inserted markup (opening
\* tags, badges, closing tags) removed is the original text, and each entity's
\* markup wraps exactly the substring text[start:end]
C2_StripRoundTrip ==
    LET c == page.hl_call
    IN  (c.called /\ AllWellFormed(text_input, ner_outcome.ents)
            /\ NonOverlapping(ner_outcome.ents))
        => /\ StripMarkup(c.result, ner_outcome.ents, c.theme) = text_input
           /\ \A i \in 1..Len(ner_outcome.ents) :
                WrapsSubstring(c.result, text_input, ner_outcome.ents[i], c.theme)
           /\ (ner_outcome.ents = <<>> => c.result = text_input)

C2_Witness ==
    /\ page.hl_call.called
    /\ theme = "Dark"
    /\ Len(ner_outcome.ents) = 2
    /\ AllWellFormed(text_input, ner_outcome.ents)
    /\ NonOverlapping(ner_outcome.ents)
    /\ ner_outcome.ents[1].start > ner_outcome.ents[2].end
    /\ Len(page.hl_call.result) = Len(text_input) + 6

\* the entities in ascending start order (the starts are distinct)
AscendingByStart(ents) ==
    [k \in 1..Len(ents) |->
        ents[CHOOSE i \in 1..Len(ents) :
                Cardinality({j \in 1..Len(ents) : ents[j].start < ents[i].start}) = k - 1]]

\* gap, fragment, gap, ... from offset pos of the text on
RECURSIVE LeftToRight(_, _, _, _, _)
LeftToRight(text, asc, i, pos, th) ==
    IF i > Len(asc) THEN PySlice(text, pos, Len(text))
    ELSE PySlice(text, pos, asc[i].start) \o replacement(asc[i], th)
            \o LeftToRight(text, asc, i + 1, asc[i].end, th)

\* C9: for in-bounds, pairwise non-overlapping entities the output is, left to
\* right, the untouched text before the first span, then for each entity in
\* ascending start order its styled fragment followed by the untouched text up
\* to the next span; there are as many fragments as entities
C9_LeftToRightLayout ==
    LET c == page.hl_call
        ents == ner_outcome.ents
    IN  (c.called /\ AllInBounds(text_input, ents) /\ NonOverlapping(ents))
        => /\ c.result = LeftToRight(text_input, AscendingByStart(ents), 1, 0, c.theme)
           /\ Len(SelectSeq(c.result, LAMBDA x : x = CloseTag)) = Len(ents)

C9_Witness ==
    /\ page.hl_call.called
    /\ Len(ner_outcome.ents) = 2
    /\ AllInBounds(text_input, ner_outcome.ents)
    /\ NonOverlapping(ner_outcome.ents)
    /\ ner_outcome.ents[1].start = 0
    /\ ner_outcome.ents[1].end = 1
    /\ ner_outcome.ents[2].start = 2
    /\ ner_outcome.ents[1].word = OtherWord
    /\ page.hl_call.result[Len(ner_outcome.ents[1].word) + 4] = text_input[2]

Permuted(ents, f) == [k \in 1..Len(ents) |-> ents[f[k]]]

\* C10: for in-bounds, pairwise non-overlapping entities every permutation of
\* the supplied list gives the same output, and the call leaves the caller's
\* text and entity list as they were
C10_OrderIndependent ==
    LET c == page.hl_call
        ents == ner_outcome.ents
    IN  (c.called /\ AllInBounds(text_input, ents) /\ NonOverlapping(ents))
        => /\ \A f \in Permutations(1..Len(ents)) :
                highlight_entities(text_input, Permuted(ents, f), c.theme) = c.result
           /\ c.text = text_input
           /\ c.entities = ents
           /\ page.entities = ents

C10_Witness ==
    /\ page.hl_call.called
    /\ Len(ner_outcome.ents) = 2
    /\ AllInBounds(text_input, ner_outcome.ents)
    /\ NonOverlapping(ner_outcome.ents)
    /\ ner_outcome.ents[1].start < ner_outcome.ents[2].start
    /\ page.entities = ner_outcome.ents

-----------------------------------------------------------------------------
(* Properties of the page, checked under Spec *)

\* the analysis of this run went through the try block without raising
Completed == page.ner_called /\ MsgAnalysisErr \notin page.messages /\ ~page.raised

Thresholds == {0, 600, 970, 1000}

FilterByThreshold(ents, t) == SelectSeq(ents, LAMBDA e : e.score >= t)

RECURSIVE ItemCount(_, _)
ItemCount(gs, n) == IF n > Len(gs) THEN 0 ELSE Len(gs[n].items) + ItemCount(gs, n + 1)

\* C1: for every threshold t, the entities that reach highlighting and the
\* grouped list are exactly the pipeline's entities with score >= t, in their
\* order; with none at or above t nothing is highlighted or listed
C1_ThresholdFilter ==
    \A t \in Thresholds :
        Completed =>
            LET kept == FilterByThreshold(ner_outcome.ents, t)
            IN  /\ page.entities = kept
                /\ page.hl_call.called = (kept # <<>>)
                /\ page.hl_call.called => page.hl_call.entities = kept
                /\ ItemCount(page.groups, 1) = Len(kept)

\* the colour tables of get_entity_color: code, Light colour, Dark colour
ColorTable ==
    {<<"LOC", "#D5F5E3", "#2ECC71">>, <<"NOR", "#D6EAF8", "#3498DB">>,
     <<"LAW", "#FDEDEC", "#E74C3C">>, <<"DAT", "#FEF9E7", "#F1C40F">>,
     <<"PER", "#E8F8F5", "#1ABC9C">>, <<"CRIMETYPE", "#FADBD8", "#E67E22">>,
     <<"EVIDENCE", "#EBDEF0", "#9B59B6">>}

ExpectedColor(code, th) ==
    IF \E row \in ColorTable : row[1] = code
    THEN LET row == CHOOSE r \in ColorTable : r[1] = code
         IN  IF th = "Light" THEN row[2] ELSE row[3]
    ELSE IF th = "Light" THEN "#F2F3F4" ELSE "#7F8C8D"

\* C3: every colour on the page is the one get_entity_color's table gives for
\* the category and the theme: each of the seven known codes (all in the
\* legend) has its table colour, any other category has the theme's gray, and
\* the same category has the same colour wherever it appears on the page
C3_ColorTotal ==
    /\ {legend[n].etype : n \in 1..Len(legend)} = {row[1] : row \in ColorTable}
    /\ \A n \in 1..Len(legend) : legend[n].color = ExpectedColor(legend[n].etype, theme)
    /\ \A n \in 1..Len(page.groups) :
            page.groups[n].header_color = ExpectedColor(page.groups[n].entity_type, theme)
    /\ \A n \in 1..Len(page.groups) : \A k \in 1..Len(legend) :
            legend[k].etype = page.groups[n].entity_type
                => legend[k].color = page.groups[n].header_color

C3_Witness ==
    /\ theme = "Dark"
    /\ Len(page.groups) = 2
    /\ page.groups[1].entity_type = "PER"
    /\ page.groups[1].header_color = "#1ABC9C"
    /\ page.groups[2].entity_type = "XYZ"
    /\ page.groups[2].header_color = "#7F8C8D"

Occurrences(e, seq) == Cardinality({i \in 1..Len(seq) : seq[i] = e})

\* C4: when the analysis of a non-empty entity list completes, every entity is
\* listed in exactly one group, the group of its category, as often as it is in
\* the list, and nothing else is listed; within a group the scores do not
\* increase; the groups come in ascending category-code order
C4_GroupedList ==
    (Completed /\ page.entities # <<>>) =>
        LET gs == page.groups
        IN  /\ \A i \in 1..Len(page.entities) : \A n \in 1..Len(gs) :
                    Occurrences(page.entities[i], gs[n].items) =
                        IF gs[n].entity_type = page.entities[i].entity_group
                        THEN Occurrences(page.entities[i], page.entities) ELSE 0
            /\ ItemCount(gs, 1) = Len(page.entities)
            /\ \A n \in 1..Len(gs) : \A a, b \in 1..Len(gs[n].items) :
                    a < b => gs[n].items[a].score >= gs[n].items[b].score
            /\ \A m, n \in 1..Len(gs) :
                    m < n => CodeRank(gs[m].entity_type) < CodeRank(gs[n].entity_type)

C4_Witness ==
    /\ Completed
    /\ Len(page.entities) = 2
    /\ page.entities[1].entity_group = "XYZ"
    /\ page.entities[2].entity_group = "PER"
    /\ Len(page.groups) = 2
    /\ page.groups[1].items = <<page.entities[2]>>
    /\ page.groups[2].items = <<page.entities[1]>>

\* C5: a run triggered by the button on an empty or whitespace-only text shows
\* the validation warning and does not invoke the pipeline, loaded or not
C5_BlankInputWarns ==
    (analyze_button /\ strip(text_input) = <<>>)
        => MsgEmptyInput \in page.messages /\ ~page.ner_called

C5_Witness ==
    /\ analyze_button
    /\ model_loaded
    /\ text_input # <<>>
    /\ strip(text_input) = <<>>
    /\ MsgEmptyInput \in page.messages

\* C6 as stated: once the load has failed, no later press of the button invokes
\* the pipeline
C6_StaysDisabled ==
    [][(~model_loaded /\ analyze_button') => ~page'.ner_called]_vars

\* C6 amended: in a run whose load failed both error messages are shown, the
\* script runs to its end (legend and result column rendered), and the run
\* neither invokes the pipeline nor shows any analysis result
C6_FailedLoadDisablesRun ==
    ~model_loaded =>
        /\ MsgLoadError \in page.messages
        /\ MsgModelFailed \in page.messages
        /\ ~page.raised
        /\ Len(legend) = 7
        /\ (MsgEmptyInput \in page.messages) # (MsgPlaceholder \in page.messages)
        /\ ~page.ner_called
        /\ ~page.hl_call.called
        /\ page.panel = <<>>
        /\ ~page.header_shown
        /\ page.groups = <<>>
        /\ MsgNoEntities \notin page.messages

C6_Witness ==
    /\ ~model_loaded
    /\ analyze_button
    /\ strip(text_input) # <<>>
    /\ ner_outcome.ents # <<>>
    /\ MsgModelFailed \in page.messages

\* C7: when the pipeline ran and returned an empty list, the page shows the
\* "no entities" information, no error message, no highlighted panel, no
\* heading and no group
C7_NoEntitiesInfo ==
    (page.ner_called /\ ~ner_outcome.raised /\ ner_outcome.ents = <<>>)
        => /\ MsgNoEntities \in page.messages
           /\ \A m \in page.messages : m.kind # "error"
           /\ page.panel = <<>>
           /\ ~page.header_shown
           /\ page.groups = <<>>

C7_Witness ==
    /\ page.ner_called
    /\ strip(text_input) # <<>>
    /\ ner_outcome = [raised |-> FALSE, ents |-> <<>>]
    /\ page.messages = {MsgNoEntities}

\* the run presents a complete result: the panel and every entity listed, or
\* the "no entities" information
CompleteResult ==
    \/ /\ ~ner_outcome.raised
       /\ ner_outcome.ents # <<>>
       /\ page.panel # <<>>
       /\ page.header_shown
       /\ ItemCount(page.groups, 1) = Len(ner_outcome.ents)
    \/ /\ ~ner_outcome.raised
       /\ ner_outcome.ents = <<>>
       /\ MsgNoEntities \in page.messages

\* C8: a run that started the analysis either presents a complete result or
\* shows the analysis error message, never both and never neither, and no
\* exception leaves the try block
C8_CompleteOrError ==
    page.ner_called =>
        /\ ~page.raised
        /\ CompleteResult # (MsgAnalysisErr \in page.messages)

C8_Witness ==
    /\ page.ner_called
    /\ MsgAnalysisErr \in page.messages
    /\ page.panel # <<>>
    /\ page.header_shown
    /\ ItemCount(page.groups, 1) = Len(ner_outcome.ents) - 1

====
